---- MODULE Spec2Model ----
(***************************************************************************)
(* Model of src/error.rs of nexus-server: the ErrorCode enumeration, the   *)
(* canonical Error record with its constructors, the six From<...>         *)
(* conversions into Error (the translators) and the conversion of Error    *)
(* into async_graphql::Error (the wire encoder).                           *)
(*                                                                         *)
(* Rust values are represented as follows.                                 *)
(*   Option<T>   : None is <<>>, Some(v) is <<v>>.                         *)
(*   String      : a TLA+ string; the driver's detail text, which the      *)
(*                 regular expression scans, is a sequence of one          *)
(*                 character strings and Str turns it into a string.       *)
(*   a call that may panic : a record [panicked, value]; value is the      *)
(*                 Option of the returned Error.                           *)
(*   a foreign failure : a record holding the discriminants the code       *)
(*                 inspects and `display`, the text its to_string() gives. *)
(***************************************************************************)
EXTENDS Integers, Sequences, FiniteSets, TLC

VARIABLES op, input, err, panicked, wire

vars == <<op, input, err, panicked, wire>>

(* Longest malformed detail text that is enumerated character by character. *)
MaxDetailLen == 3

-----------------------------------------------------------------------------
(* Option<T> *)
None == <<>>

Some(v) == <<v>>

(* Joins a sequence of one character strings into one string. *)
RECURSIVE Str(_)
Str(s) == IF s = <<>> THEN "" ELSE Head(s) \o Str(Tail(s))

(* All sequences over S with at most n elements. *)
SeqUpTo(S, n) == UNION {[1..k -> S] : k \in 0..n}

-----------------------------------------------------------------------------
(* The failures the collaborators raise. The fields of every record are    *)
(* written in the order in which the module first names them.              *)

DetailAlphabet == {"(", ")", "a", " "}

Columns ==
    {<<"e", "m", "a", "i", "l">>, <<"u", "s", "e", "r", "n", "a", "m", "e">>}

Values == {<<"e", "s", "t", "e", "b", "a", "n">>, <<"a", "_", "1">>}

(* The text the driver writes: Key (<column>)=(<value>) already exists. *)
WellFormed(col, val) ==
    <<"K", "e", "y", " ", "(">> \o col \o <<")", "=", "(">> \o val
        \o <<")", " ", "a", "l", "r", "e", "a", "d", "y", " ",
             "e", "x", "i", "s", "t", "s", ".">>

WellFormedDetails == {WellFormed(c, v) : c \in Columns, v \in Values}

Details ==
    {None} \cup {Some(d) : d \in WellFormedDetails}
           \cup {Some(d) : d \in SeqUpTo(DetailAlphabet, MaxDetailLen)}

DatabaseErrorKind ==
    {"UniqueViolation", "ForeignKeyViolation", "NotNullViolation"}

DieselErrors ==
    [display : {"duplicate key value violates unique constraint",
                "null value in column violates not-null constraint"},
     variant : {"DatabaseError"}, kind : DatabaseErrorKind, details : Details]
    \cup
    [display : {"Record not found", "The current transaction was aborted"},
     variant : {"NotFound", "RollbackTransaction"}, kind : {"none"},
     details : {None}]

JwtErrors ==
    [display : {"InvalidToken", "InvalidSignature", "ExpiredSignature"},
     kind : {"InvalidToken", "InvalidSignature", "ExpiredSignature"}]

PoolErrors == [display : {"timed out waiting for connection", "connection refused"}]

HashErrors == [display : {"Salt is too short", "Output is too long"}]

CursorErrors == [display : {"Invalid cursor", "Invalid base64"}]

UpstreamErrors == [display : {"Query is nested too deep", "Unknown field"}]

FieldNames == {"email", "username"}

ValueTexts == {"esteban", "a_1"}

-----------------------------------------------------------------------------
(* enum ErrorCode *)
ErrorCode ==
    {"Base64CursorError", "ServerError", "InvalidCredentials",
     "InvalidJsonWebToken", "Unique", "Unhandled"}

ErrorCode_to_string_SharedString(code) ==
    CASE code = "Base64CursorError"   -> "BASE64_CURSOR_ERROR"
      [] code = "ServerError"         -> "SERVER_ERROR"
      [] code = "InvalidCredentials"  -> "INVALID_CREDENTIALS"
      [] code = "InvalidJsonWebToken" -> "INVALID_CREDENTIALS"
      [] code = "Unique"              -> "UNIQUE"
      [] code = "Unhandled"           -> "UNHANDLED"

(* The Display text thiserror derives from the #[error("...")] attributes. *)
ErrorCode_to_string(code) ==
    CASE code = "Base64CursorError"   -> "BASE64_CURSOR_ERROR"
      [] code = "ServerError"         -> "SERVER_ERROR"
      [] code = "InvalidCredentials"  -> "INVALID_CREDENTIALS"
      [] code = "InvalidJsonWebToken" -> "INVALID_JWT"
      [] code = "Unique"              -> "UNIQUE"
      [] code = "Unhandled"           -> "UNHANDLED"

-----------------------------------------------------------------------------
(* struct Error and its constructors *)
Error_new(field, message, code) ==
    [code |-> code, field |-> Some(field), message |-> Some(message)]

Error_code_KeepsField(code) ==
    [code |-> code, field |-> Some(ErrorCode_to_string(code)), message |-> None]

Error_code(code) ==
    [code |-> code, field |-> None, message |-> None]

Error_server_error ==
    [code |-> "ServerError", field |-> None, message |-> None]

Error_unique(field, value) ==
    IF value # None
    THEN [code    |-> "Unique",
          field   |-> Some(field),
          message |-> Some("A " \o field \o " with " \o value[1] \o " already exists")]
    ELSE [code    |-> "Unique",
          field   |-> Some(field),
          message |-> Some("The " \o field \o " already exists")]

Error_unhandled_NoMessage(e) ==
    [code    |-> "Unhandled",
     field   |-> Some("An unhandled erorr ocurred"),
     message |-> None]

(* e is the boxed failure; e.display is what err.to_string() returns. *)
Error_unhandled(e) ==
    [code    |-> "Unhandled",
     field   |-> Some("An unhandled erorr ocurred"),
     message |-> Some(e.display)]

-----------------------------------------------------------------------------
(* Results of a call that may panic. *)
Ok(e) == [panicked |-> FALSE, value |-> Some(e)]

Panic == [panicked |-> TRUE, value |-> None]

-----------------------------------------------------------------------------
(* impl From<Error> for async_graphql::Error *)
ext_set(e, k, v) == [x \in (DOMAIN e) \cup {k} |-> IF x = k THEN v ELSE e[x]]

gql_new(message) == [message |-> message, extensions |-> <<>>]

Into_async_graphql_DropsField(e) ==
    LET gql_error == gql_new("An error occurred")
        e1 == IF e.message # None
              THEN ext_set(gql_error.extensions, "message", e.message[1])
              ELSE gql_error.extensions
        e3 == ext_set(e1, "code", ErrorCode_to_string(e.code))
    IN  [gql_error EXCEPT !.extensions = e3]

Into_async_graphql(e) ==
    LET gql_error == gql_new("An error occurred")
        e1 == IF e.message # None
              THEN ext_set(gql_error.extensions, "message", e.message[1])
              ELSE gql_error.extensions
        e2 == IF e.field # None
              THEN ext_set(e1, "field", e.field[1])
              ELSE e1
        e3 == ext_set(e2, "code", ErrorCode_to_string(e.code))
    IN  [gql_error EXCEPT !.extensions = e3]

-----------------------------------------------------------------------------
(* The constraint extractor: the pattern of Regex::new and re.captures.     *)
(* The pattern is, in order: a greedy run of \w characters outside any     *)
(* group, a literal opening parenthesis, capture group 1 which is a greedy *)
(* run of \w characters and is itself repeated greedily, and a literal     *)
(* closing parenthesis.                                                    *)

(* The characters of the modelled texts that the class \w contains. *)
WordChars ==
    {"a", "b", "d", "e", "i", "l", "m", "n", "r", "s", "t", "u", "x", "y",
     "K", "1", "_"}

IsWord(c) == c \in WordChars

(* Number of consecutive \w characters of s from position i on. *)
RECURSIVE WordRun(_, _)
WordRun(s, i) ==
    IF i <= Len(s) /\ IsWord(s[i]) THEN 1 + WordRun(s, i + 1) ELSE 0

(* Position of the "(" of a match that starts at i. \w* is greedy and "("  *)
(* is not in \w, so every shorter choice of \w* is followed by a \w        *)
(* character and fails: the only candidate is the end of the whole run.    *)
OpenAt(s, i) == i + WordRun(s, i)

(* Position of the ")" of a match whose "(" is at p, for the same reason. *)
CloseAt(s, p) == p + 1 + WordRun(s, p + 1)

MatchesAt(s, i) ==
    LET p == OpenAt(s, i)
    IN  /\ p <= Len(s)
        /\ s[p] = "("
        /\ CloseAt(s, p) <= Len(s)
        /\ s[CloseAt(s, p)] = ")"

(* Regex::captures: the leftmost match. Group 0 is the whole match. Group 1 *)
(* is what the repeated group took on its first pass, the whole word run    *)
(* between the parentheses (a further pass could only take the empty text   *)
(* at the same place and the engine does not record it); between adjacent   *)
(* parentheses the group takes part with the empty text.                    *)
Regex_captures(s) ==
    LET starts == {i \in 1..Len(s) : MatchesAt(s, i)}
    IN  IF starts = {} THEN None
        ELSE LET i == CHOOSE k \in starts : \A j \in starts : k <= j
                 p == OpenAt(s, i)
                 q == CloseAt(s, p)
             IN  Some([g0 |-> Some(SubSeq(s, i, q)),
                       g1 |-> Some(SubSeq(s, p + 1, q - 1))])

-----------------------------------------------------------------------------
(* The translators. *)

(* impl From<diesel::result::Error> for Error. Every unwrap() of a None    *)
(* panics.                                                                 *)
From_diesel(e) ==
    IF e.variant = "DatabaseError"
    THEN IF e.kind = "UniqueViolation"
         THEN IF e.details = None
              THEN Panic
              ELSE LET captures == Regex_captures(e.details[1])
                   IN  IF captures = None
                       THEN Panic
                       ELSE IF captures[1].g0 = None \/ captures[1].g1 = None
                            THEN Panic
                            ELSE Ok(Error_unique(Str(captures[1].g0[1]),
                                                 Some(Str(captures[1].g1[1]))))
         ELSE Ok(Error_unhandled(e))
    ELSE Ok(Error_unhandled(e))

From_jsonwebtoken_ServerError(e) ==
    IF e.kind = "InvalidToken"
    THEN Ok(Error_code("ServerError"))
    ELSE Ok(Error_unhandled(e))

From_jsonwebtoken_Credentials(e) ==
    IF e.kind = "InvalidToken"
    THEN Ok(Error_code("InvalidJsonWebToken"))
    ELSE Ok(Error_code("InvalidCredentials"))

(* impl From<jsonwebtoken::errors::Error> for Error *)
From_jsonwebtoken(e) ==
    IF e.kind = "InvalidToken"
    THEN Ok(Error_code("InvalidJsonWebToken"))
    ELSE Ok(Error_unhandled(e))

From_r2d2_Unhandled(e) == Ok(Error_unhandled(e))

(* impl From<r2d2::Error> for Error *)
From_r2d2(e) == Ok(Error_code("ServerError"))

From_argon2_CodeOnly(e) == Ok(Error_code("Unhandled"))

(* impl From<argon2::Error> for Error *)
From_argon2(e) == Ok(Error_unhandled(e))

(* impl From<Base64CursorError> for Error *)
From_Base64CursorError(e) == Ok(Error_code("Base64CursorError"))

(* impl From<async_graphql::Error> for Error *)
From_async_graphql(e) == Ok(Error_server_error)

-----------------------------------------------------------------------------
(* One step per conversion or constructor call; a call starts a fresh     *)
(* request, so nothing is encoded yet.                                     *)
DataStoreFails ==
    \E e \in DieselErrors :
        LET r == From_diesel(e)
        IN  /\ op' = "From_diesel"
            /\ input' = e
            /\ err' = r.value
            /\ panicked' = r.panicked
            /\ wire' = None

TokenFails ==
    \E e \in JwtErrors :
        LET r == From_jsonwebtoken(e)
        IN  /\ op' = "From_jsonwebtoken"
            /\ input' = e
            /\ err' = r.value
            /\ panicked' = r.panicked
            /\ wire' = None

PoolFails ==
    \E e \in PoolErrors :
        LET r == From_r2d2(e)
        IN  /\ op' = "From_r2d2"
            /\ input' = e
            /\ err' = r.value
            /\ panicked' = r.panicked
            /\ wire' = None

HashFails ==
    \E e \in HashErrors :
        LET r == From_argon2(e)
        IN  /\ op' = "From_argon2"
            /\ input' = e
            /\ err' = r.value
            /\ panicked' = r.panicked
            /\ wire' = None

CursorFails ==
    \E e \in CursorErrors :
        LET r == From_Base64CursorError(e)
        IN  /\ op' = "From_Base64CursorError"
            /\ input' = e
            /\ err' = r.value
            /\ panicked' = r.panicked
            /\ wire' = None

UpstreamFails ==
    \E e \in UpstreamErrors :
        LET r == From_async_graphql(e)
        IN  /\ op' = "From_async_graphql"
            /\ input' = e
            /\ err' = r.value
            /\ panicked' = r.panicked
            /\ wire' = None

CallNew ==
    \E f \in FieldNames, m \in ValueTexts, c \in ErrorCode :
        /\ op' = "new"
        /\ input' = [code |-> c, field |-> f, message |-> m]
        /\ err' = Some(Error_new(f, m, c))
        /\ panicked' = FALSE
        /\ wire' = None

CallCode ==
    \E c \in ErrorCode :
        /\ op' = "code"
        /\ input' = [code |-> c]
        /\ err' = Some(Error_code(c))
        /\ panicked' = FALSE
        /\ wire' = None

CallServerError ==
    /\ op' = "server_error"
    /\ input' = [none |-> TRUE]
    /\ err' = Some(Error_server_error)
    /\ panicked' = FALSE
    /\ wire' = None

CallUnique ==
    \E f \in FieldNames, v \in {None} \cup {Some(t) : t \in ValueTexts} :
        /\ op' = "unique"
        /\ input' = [field |-> f, value |-> v]
        /\ err' = Some(Error_unique(f, v))
        /\ panicked' = FALSE
        /\ wire' = None

CallUnhandled ==
    \E e \in HashErrors \cup PoolErrors :
        /\ op' = "unhandled"
        /\ input' = e
        /\ err' = Some(Error_unhandled(e))
        /\ panicked' = FALSE
        /\ wire' = None

(* The resolver hands the canonical Error to the wire encoder. *)
Encode ==
    /\ err # None
    /\ wire = None
    /\ wire' = Some(Into_async_graphql(err[1]))
    /\ UNCHANGED <<op, input, err, panicked>>

Init ==
    /\ op = "start"
    /\ input = [none |-> TRUE]
    /\ err = None
    /\ panicked = FALSE
    /\ wire = None

Next ==
    \/ DataStoreFails
    \/ TokenFails
    \/ PoolFails
    \/ HashFails
    \/ CursorFails
    \/ UpstreamFails
    \/ CallNew
    \/ CallCode
    \/ CallServerError
    \/ CallUnique
    \/ CallUnhandled
    \/ Encode

Spec == Init /\ [][Next]_vars

-----------------------------------------------------------------------------
(* Vocabulary of the properties. *)

Translators ==
    {"From_diesel", "From_jsonwebtoken", "From_r2d2", "From_argon2",
     "From_Base64CursorError", "From_async_graphql"}

UniqueViolationSeen ==
    /\ op = "From_diesel"
    /\ input.variant = "DatabaseError"
    /\ input.kind = "UniqueViolation"

(* s has the shape Key (<column>)=(<value>) already exists. with both       *)
(* tokens non-empty runs of word characters.                                *)
HasExpectedShape(s) ==
    LET c == WordRun(s, 6)
        v == WordRun(s, 9 + c)
    IN  /\ c > 0
        /\ v > 0
        /\ s = WellFormed(SubSeq(s, 6, 5 + c), SubSeq(s, 9 + c, 8 + c + v))

(* The inputs a translator passes to Error::unhandled. *)
Unclassified ==
    \/ /\ op = "From_diesel"
       /\ \/ input.variant # "DatabaseError"
          \/ input.kind # "UniqueViolation"
    \/ /\ op = "From_jsonwebtoken"
       /\ input.kind # "InvalidToken"
    \/ op = "From_argon2"

UnhandledLabel == "An unhandled erorr ocurred"

GenericMessage == "An error occurred"

-----------------------------------------------------------------------------
(* C1: a uniqueness violation whose detail text is absent or does not have *)
(* the expected shape translates to an Error with code Unhandled, and the  *)
(* translation never panics.                                               *)
C1_MalformedDetailIsUnhandled ==
    (/\ UniqueViolationSeen
     /\ \/ input.details = None
        \/ ~HasExpectedShape(input.details[1]))
    => /\ ~panicked
       /\ err # None
       /\ err[1].code = "Unhandled"

(* C2: a uniqueness violation with a well formed detail text translates to *)
(* Unique, with the bare column name as field and the message              *)
(* "A <column> with <value> already exists".                               *)
C2_WellFormedDetailNamesColumn ==
    \A c \in Columns, v \in Values :
        (UniqueViolationSeen /\ input.details = Some(WellFormed(c, v)))
        => err = Some([code    |-> "Unique",
                       field   |-> Some(Str(c)),
                       message |-> Some("A " \o Str(c) \o " with " \o Str(v)
                                            \o " already exists")])

(* C3 as stated: the wire response of a failure funnelled to Unhandled has *)
(* the fixed top-level message and the code "UNHANDLED", and the           *)
(* stringified cause appears nowhere in it.                                *)
C3_UnhandledCauseNotOnWire ==
    (Unclassified /\ wire # None)
    => /\ wire[1].message = GenericMessage
       /\ wire[1].extensions["code"] = "UNHANDLED"
       /\ wire[1].message # input.display
       /\ \A k \in DOMAIN wire[1].extensions :
              wire[1].extensions[k] # input.display

(* C3 as amended: the wire response of a failure funnelled to Unhandled    *)
(* has the fixed top-level message, which is not the stringified cause,    *)
(* and an extension object of exactly the code "UNHANDLED", the fixed      *)
(* label as field and the stringified cause as message: the response       *)
(* depends on the failure through its stringified form alone.              *)
C3_UnhandledCauseOnlyAsMessage ==
    (Unclassified /\ wire # None)
    => /\ wire[1].message # input.display
       /\ wire[1] = [message    |-> GenericMessage,
                     extensions |-> [code    |-> "UNHANDLED",
                                     field   |-> UnhandledLabel,
                                     message |-> input.display]]

C3_Witness ==
    /\ op = "From_argon2"
    /\ input.display = "Salt is too short"
    /\ wire # None
    /\ wire[1].extensions["message"] = "Salt is too short"

(* C4: the wire response has the fixed top-level message; its extension    *)
(* object holds code always, message iff the Error has one, field iff the  *)
(* Error has one, each with the Error's text, and no other key.            *)
C4_WireEncoding ==
    wire # None
    => LET e == err[1]
           x == wire[1].extensions
       IN  /\ wire[1].message = GenericMessage
           /\ DOMAIN wire[1] = {"message", "extensions"}
           /\ DOMAIN x \subseteq {"code", "message", "field"}
           /\ "code" \in DOMAIN x
           /\ x["code"] = ErrorCode_to_string(e.code)
           /\ ("message" \in DOMAIN x) <=> (e.message # None)
           /\ (e.message # None) => x["message"] = e.message[1]
           /\ ("field" \in DOMAIN x) <=> (e.field # None)
           /\ (e.field # None) => x["field"] = e.field[1]

C4_Witness ==
    /\ wire # None
    /\ err[1].field # None
    /\ err[1].message # None
    /\ DOMAIN wire[1].extensions = {"code", "message", "field"}

(* C5: every unclassified input translates, without a panic, to the Error  *)
(* with code Unhandled, the stringified failure as message and the fixed   *)
(* label as field.                                                         *)
C5_UnclassifiedIsUnhandled ==
    Unclassified
    => /\ ~panicked
       /\ err = Some([code    |-> "Unhandled",
                      field   |-> Some(UnhandledLabel),
                      message |-> Some(input.display)])

C5_Witness ==
    /\ op = "From_diesel"
    /\ input.variant = "DatabaseError"
    /\ input.kind = "ForeignKeyViolation"
    /\ err # None
    /\ err[1].code = "Unhandled"

(* C6: pool, cursor and upstream failures translate to an Error that does  *)
(* not depend on the failure, without field and message; the extension     *)
(* object is exactly the code, SERVER_ERROR for pool and upstream and      *)
(* BASE64_CURSOR_ERROR for cursor failures, and holds no text of the input.*)
C6_OpaqueSources ==
    /\ op \in {"From_r2d2", "From_async_graphql"}
       => /\ ~panicked
          /\ err = Some([code |-> "ServerError", field |-> None, message |-> None])
          /\ wire # None
             => wire[1] = [message    |-> GenericMessage,
                           extensions |-> [code |-> "SERVER_ERROR"]]
    /\ op = "From_Base64CursorError"
       => /\ ~panicked
          /\ err = Some([code |-> "Base64CursorError", field |-> None,
                         message |-> None])
          /\ wire # None
             => wire[1] = [message    |-> GenericMessage,
                           extensions |-> [code |-> "BASE64_CURSOR_ERROR"]]
    /\ (/\ op \in {"From_r2d2", "From_async_graphql", "From_Base64CursorError"}
        /\ wire # None)
       => \A k \in DOMAIN wire[1].extensions :
              wire[1].extensions[k] # input.display

C6_Witness ==
    /\ op = "From_r2d2"
    /\ input.display = "connection refused"
    /\ wire # None

(* C7: an InvalidToken failure translates to the Error with code           *)
(* InvalidJsonWebToken and neither field nor message, and its extension    *)
(* object is exactly {code: "INVALID_JWT"}.                                *)
C7_InvalidToken ==
    (op = "From_jsonwebtoken" /\ input.kind = "InvalidToken")
    => /\ ~panicked
       /\ err = Some([code |-> "InvalidJsonWebToken", field |-> None,
                      message |-> None])
       /\ wire # None => wire[1].extensions = [code |-> "INVALID_JWT"]

C7_Witness ==
    /\ op = "From_jsonwebtoken"
    /\ input.kind = "InvalidToken"
    /\ wire # None

(* C8: the wire strings of the six codes are the six of the table, no two  *)
(* codes share one, and the code on the wire leads back to the code of the *)
(* Error.                                                                  *)
C8_CodeStrings ==
    /\ ErrorCode_to_string("Base64CursorError") = "BASE64_CURSOR_ERROR"
    /\ ErrorCode_to_string("ServerError") = "SERVER_ERROR"
    /\ ErrorCode_to_string("InvalidCredentials") = "INVALID_CREDENTIALS"
    /\ ErrorCode_to_string("InvalidJsonWebToken") = "INVALID_JWT"
    /\ ErrorCode_to_string("Unique") = "UNIQUE"
    /\ ErrorCode_to_string("Unhandled") = "UNHANDLED"
    /\ \A c1, c2 \in ErrorCode :
           ErrorCode_to_string(c1) = ErrorCode_to_string(c2) => c1 = c2
    /\ wire # None
       => \A c \in ErrorCode :
              ErrorCode_to_string(c) = wire[1].extensions["code"]
              => c = err[1].code

C8_Witness ==
    /\ op = "code"
    /\ input.code = "InvalidCredentials"
    /\ wire # None
    /\ wire[1].extensions["code"] = "INVALID_CREDENTIALS"

(* The operations C9 is about: the translators and the constructors code,  *)
(* server_error, unique and unhandled.                                     *)
FieldScopedOps == Translators \cup {"code", "server_error", "unique", "unhandled"}

(* C9 as stated: field is present only with the code Unique. *)
C9_FieldOnlyForUnique ==
    (op \in FieldScopedOps /\ err # None /\ err[1].field # None)
    => err[1].code = "Unique"

(* C9 as amended: field is present only with the codes Unique and          *)
(* Unhandled; with Unhandled it is the fixed label of Error::unhandled,    *)
(* with Error::unique it is the field handed in; Error::code and           *)
(* Error::server_error leave it absent.                                    *)
C9_FieldForUniqueAndUnhandled ==
    (op \in FieldScopedOps /\ err # None)
    => /\ err[1].field # None => err[1].code \in {"Unique", "Unhandled"}
       /\ (err[1].field # None /\ err[1].code = "Unhandled")
          => err[1].field = Some(UnhandledLabel)
       /\ op = "unique" => err[1].field = Some(input.field)
       /\ op \in {"code", "server_error"} => err[1].field = None

C9_Witness ==
    /\ op = "From_argon2"
    /\ err # None
    /\ err[1].code = "Unhandled"
    /\ err[1].field = Some(UnhandledLabel)

(* C10: no translator yields the code InvalidCredentials. *)
C10_NoInvalidCredentials ==
    (op \in Translators /\ err # None)
    => err[1].code \in {"Base64CursorError", "ServerError",
                        "InvalidJsonWebToken", "Unique", "Unhandled"}

C10_Witness ==
    /\ op = "From_jsonwebtoken"
    /\ input.kind = "ExpiredSignature"
    /\ err # None
    /\ err[1].code = "Unhandled"

====
